---- MODULE Spec2Model ----
(***************************************************************************)
(* A model of oddsview.py: the catalog fetch (OddsView.get_live_games),    *)
(* the channel derivation (OddsView.get_game_channels), the fan-out of one *)
(* asyncio task per subscription (OddsView.live_odds_stream) and the       *)
(* receive loop of every task (stream).                                    *)
(*                                                                         *)
(* Python dicts are modelled in iteration order: `markets` is the sequence *)
(* of its values (the market ids are never read), `outcomes` the sequence  *)
(* of its keys (the outcome ids, pairwise distinct as dict keys are).  A   *)
(* dict that lacks a key is a record whose DOMAIN lacks the field.         *)
(***************************************************************************)
EXTENDS Integers, Sequences, FiniteSets, TLC

VARIABLES
    channel_titles, \* the module global CHANNEL_TITLES, a dict any code may write to
    response,   \* what the live-games endpoint answers to the GET of line 88
    lo_pc,      \* position of live_odds_stream
    live_games, \* local `live_games` of live_odds_stream (line 130)
    games,      \* local `games` of live_odds_stream (line 134)
    tasks,      \* local `tasks`: the arguments of every stream() task, in creation order
    lo_i,       \* index of the task the comprehension of line 157 is awaiting
    pc,         \* per task: the await stream() is suspended at
    conn,       \* per task: the state of `ws`
    sent,       \* per task: the frames passed to ws.send that were sent
    wire,       \* per task: the frames ws.recv returned, in order
    recvs,      \* per task: the number of ws.recv calls that completed (returned or raised)
    out,        \* per task: the lines the task printed, in order
    result      \* per task: the state of the asyncio task

vars == <<channel_titles, response, lo_pc, live_games, games, tasks, lo_i,
          pc, conn, sent, wire, recvs, out, result>>

lo_vars == <<channel_titles, response, lo_pc, live_games, games, tasks, lo_i>>

(***************************************************************************)
(* Bounds.                                                                 *)
(***************************************************************************)
MaxCatalogSize == 5 \* games, markets and outcomes of a catalog, all together
MaxRunners == 2     \* tasks of a run whose receive loops are explored
MaxFrames == 2      \* inbound frames of a run, all connections together

GameIds == {"g1", "g2"}
OutcomeIds == {"o1", "o2"}
MarketTypes == {"MONEYLINE", "SPREAD", "TOTAL"}
Payloads == {"p1", "p2"}

(***************************************************************************)
(* Sequence helpers.                                                       *)
(***************************************************************************)
Has(d, k) == k \in DOMAIN d

Last(s) == s[Len(s)]

RECURSIVE Flatten(_)
Flatten(ss) == IF ss = <<>> THEN <<>> ELSE Head(ss) \o Flatten(Tail(ss))

RECURSIVE SumLen(_, _)
SumLen(f, S) ==
    IF S = {} THEN 0
    ELSE LET x == CHOOSE y \in S : TRUE IN Len(f[x]) + SumLen(f, S \ {x})

(***************************************************************************)
(* Module constants.                                                       *)
(***************************************************************************)
\* line 8-11: the value the module gives the table
CHANNEL_TITLES ==
    [MONEYLINE |-> <<"best_ml", "moneyline">>, SPREAD |-> <<"best_ms", "spread">>]

ws_uri == "wss://ws.openodds.gg/ws"

(***************************************************************************)
(* The catalogs the endpoint may return.                                   *)
(***************************************************************************)
Market(t, os) == [market_type |-> t, outcomes |-> os]

Game(id, ms) == [game_id |-> id, markets |-> ms]

\* the size of a catalog is the number of its games, markets and outcomes
MarketSize(m) == 1 + (IF Has(m, "outcomes") THEN Len(m.outcomes) ELSE 0)

RECURSIVE MarketsSize(_)
MarketsSize(ms) == IF ms = <<>> THEN 0 ELSE MarketSize(Head(ms)) + MarketsSize(Tail(ms))

GameSize(g) == 1 + (IF Has(g, "markets") THEN MarketsSize(g.markets) ELSE 0)

RECURSIVE CatalogSize(_)
CatalogSize(c) == IF c = <<>> THEN 0 ELSE GameSize(Head(c)) + CatalogSize(Tail(c))

\* a game without markets yet, or a game dict that lacks a key
NewGames == {Game(id, <<>>) : id \in GameIds} \cup {[game_id |-> "g1"], [markets |-> <<>>]}

\* a market without outcomes yet, or a market dict that lacks a key
NewMarkets ==
    {Market(t, <<>>) : t \in MarketTypes}
    \cup {[market_type |-> t] : t \in {"SPREAD", "TOTAL"}}
    \cup {[outcomes |-> <<>>]}

(***************************************************************************)
(* The answers of the endpoint: the GET fails, the body is not JSON, the   *)
(* JSON lacks `body`, `body` lacks `live_games`, or a catalog comes back.  *)
(***************************************************************************)
HttpFailure == [http_ok |-> FALSE]

NotJson == [http_ok |-> TRUE, json_ok |-> FALSE]

NoBody == [http_ok |-> TRUE, json_ok |-> TRUE, value |-> [statusCode |-> "200"]]

NoLiveGames ==
    [http_ok |-> TRUE, json_ok |-> TRUE, value |-> [body |-> [message |-> "none"]]]

Ok(c) == [http_ok |-> TRUE, json_ok |-> TRUE, value |-> [body |-> [live_games |-> c]]]

FailedResponses == {HttpFailure, NotJson, NoBody, NoLiveGames}

Catalog(resp) == resp.value.body.live_games

HoldsCatalog(resp) == resp \notin FailedResponses

\* a call either returns a value or raises
Return(v) == [raised |-> FALSE, value |-> v]

Raise(exc) == [raised |-> TRUE, exc |-> exc]

\* get_live_games answering a failed fetch with an empty catalog
get_live_games_or_empty(resp) ==
    IF ~resp.http_ok \/ ~resp.json_ok THEN Return(<<>>)
    ELSE IF ~Has(resp.value, "body") THEN Return(<<>>)
    ELSE IF ~Has(resp.value.body, "live_games") THEN Return(<<>>)
    ELSE Return(resp.value.body.live_games)

\* requests.get(...).json() and response["body"]["live_games"]
get_live_games(resp) ==
    IF ~resp.http_ok THEN Raise("ConnectionError")
    ELSE IF ~resp.json_ok THEN Raise("JSONDecodeError")
    ELSE IF ~Has(resp.value, "body") THEN Raise("KeyError: body")
    ELSE IF ~Has(resp.value.body, "live_games") THEN Raise("KeyError: live_games")
    ELSE Return(resp.value.body.live_games)

(***************************************************************************)
(* get_game_channels.                                                      *)
(***************************************************************************)
ChannelName(channel_title, outcome_id) == channel_title \o "." \o outcome_id

\* line 118-119: one channel per title of the market's type, in declared order
OutcomeChannels(market, outcome_id) ==
    [k \in 1..Len(channel_titles[market.market_type]) |->
        ChannelName(channel_titles[market.market_type][k], outcome_id)]

\* MarketChannels without the test of line 116: a market of another type gives one
\* channel per outcome, named after its type
MarketChannelsAnyType(market) ==
    IF market.market_type \in DOMAIN channel_titles
    THEN Flatten([j \in 1..Len(market.outcomes) |->
                     OutcomeChannels(market, market.outcomes[j])])
    ELSE IF Has(market, "outcomes")
    THEN [j \in 1..Len(market.outcomes) |-> ChannelName(market.market_type, market.outcomes[j])]
    ELSE <<>>

\* MarketChannels with the loops of line 117 and 118 swapped
MarketChannelsTitleMajor(market) ==
    IF market.market_type \in DOMAIN channel_titles
    THEN Flatten([k \in 1..Len(channel_titles[market.market_type]) |->
                     [j \in 1..Len(market.outcomes) |->
                         ChannelName(channel_titles[market.market_type][k],
                                     market.outcomes[j])]])
    ELSE <<>>

\* line 116-119: the channels one market appends; a market of another type appends none
MarketChannels(market) ==
    IF market.market_type \in DOMAIN channel_titles
    THEN Flatten([j \in 1..Len(market.outcomes) |->
                     OutcomeChannels(market, market.outcomes[j])])
    ELSE <<>>

\* line 115-119
GameChannels(live_game) ==
    Flatten([i \in 1..Len(live_game.markets) |-> MarketChannels(live_game.markets[i])])

\* the KeyError of line 116 or 117
MarketRaises(market) ==
    \/ ~Has(market, "market_type")
    \/ market.market_type \in DOMAIN channel_titles /\ ~Has(market, "outcomes")

\* the KeyError of line 113, 115, 116 or 117
GameRaises(live_game) ==
    \/ ~Has(live_game, "game_id")
    \/ ~Has(live_game, "markets")
    \/ \E i \in 1..Len(live_game.markets) : MarketRaises(live_game.markets[i])

\* get_game_channels leaving out the games it cannot read instead of raising
get_game_channels_skipping(lg) ==
    LET readable == SelectSeq(lg, LAMBDA g : ~GameRaises(g)) IN
    Return([i \in 1..Len(readable) |->
               [game_id |-> readable[i].game_id, channels |-> GameChannels(readable[i])]])

get_game_channels(lg) ==
    IF \E i \in 1..Len(lg) : GameRaises(lg[i]) THEN Raise("KeyError")
    ELSE Return([i \in 1..Len(lg) |->
                    [game_id |-> lg[i].game_id, channels |-> GameChannels(lg[i])]])

(***************************************************************************)
(* live_odds_stream, lines 130-155: everything up to the first await.      *)
(***************************************************************************)
FilterMessage == [filtered_sportsbooks |-> <<"PINNY">>, action |-> "filter"]

SubscribeMessage(channel) == [channel |-> channel, action |-> "subscribe"]

StreamArgs(message) == [uri |-> ws_uri, subscription_payload |-> message]

\* GameTasks subscribing once to a channel that was derived several times
GameTasksDedup(game) ==
    <<StreamArgs(SubscribeMessage("game_state." \o game.game_id))>>
    \o LET first == {k \in 1..Len(game.channels) :
                        \A j \in 1..(k - 1) : game.channels[j] # game.channels[k]}
           kept == SelectSeq([k \in 1..Len(game.channels) |-> k], LAMBDA k : k \in first)
       IN  [n \in 1..Len(kept) |-> StreamArgs(SubscribeMessage(game.channels[kept[n]]))]

\* GameTasks subscribing to the game state only of a game that has channels
GameTasksIfChannels(game) ==
    (IF game.channels = <<>> THEN <<>>
     ELSE <<StreamArgs(SubscribeMessage("game_state." \o game.game_id))>>)
    \o [k \in 1..Len(game.channels) |-> StreamArgs(SubscribeMessage(game.channels[k]))]

\* line 142-155: the tasks one game appends
GameTasks(game) ==
    <<StreamArgs(SubscribeMessage("game_state." \o game.game_id))>>
    \o [k \in 1..Len(game.channels) |-> StreamArgs(SubscribeMessage(game.channels[k]))]

\* TaskList without the task of line 135-140
TaskListNoFilter(gs) == Flatten([i \in 1..Len(gs) |-> GameTasks(gs[i])])

\* TaskList with every game_state task ahead of every market channel task
TaskListGrouped(gs) ==
    <<StreamArgs(FilterMessage)>>
    \o [i \in 1..Len(gs) |-> StreamArgs(SubscribeMessage("game_state." \o gs[i].game_id))]
    \o Flatten([i \in 1..Len(gs) |->
                   [k \in 1..Len(gs[i].channels) |->
                       StreamArgs(SubscribeMessage(gs[i].channels[k]))]])

\* line 135-155
TaskList(gs) ==
    <<StreamArgs(FilterMessage)>> \o Flatten([i \in 1..Len(gs) |-> GameTasks(gs[i])])

NoTasks == <<>>

\* line 130
Fetch ==
    /\ lo_pc = "start"
    /\ LET r == get_live_games(response) IN
        IF r.raised
        THEN lo_pc' = "raised" /\ UNCHANGED live_games
        ELSE lo_pc' = "fetched" /\ live_games' = r.value
    /\ UNCHANGED <<channel_titles, response, games, tasks, lo_i, pc, conn, sent, wire, recvs, out, result>>

\* Derive with a get_game_channels that takes the markets out of the games it reads
DeriveConsumesInput ==
    /\ lo_pc = "fetched"
    /\ LET r == get_game_channels(live_games) IN
        IF r.raised
        THEN lo_pc' = "raised" /\ UNCHANGED <<games, live_games>>
        ELSE /\ lo_pc' = "derived"
             /\ games' = r.value
             /\ live_games' = [i \in DOMAIN live_games |->
                                  [live_games[i] EXCEPT !.markets = <<>>]]
    /\ UNCHANGED <<channel_titles, response, tasks, lo_i, pc, conn, sent, wire, recvs, out, result>>

\* line 134
Derive ==
    /\ lo_pc = "fetched"
    /\ LET r == get_game_channels(live_games) IN
        IF r.raised
        THEN lo_pc' = "raised" /\ UNCHANGED games
        ELSE lo_pc' = "derived" /\ games' = r.value
    /\ UNCHANGED <<channel_titles, response, live_games, tasks, lo_i, pc, conn, sent, wire, recvs, out, result>>

\* line 135-157: every task is created, none has run when the first await suspends
Launch ==
    /\ lo_pc = "derived"
    /\ tasks' = TaskList(games)
    /\ lo_pc' = "awaiting"
    /\ lo_i' = 1
    /\ pc' = [r \in DOMAIN tasks' |-> "connect"]
    /\ conn' = [r \in DOMAIN tasks' |-> "none"]
    /\ sent' = [r \in DOMAIN tasks' |-> <<>>]
    /\ wire' = [r \in DOMAIN tasks' |-> <<>>]
    /\ recvs' = [r \in DOMAIN tasks' |-> 0]
    /\ out' = [r \in DOMAIN tasks' |-> <<>>]
    /\ result' = [r \in DOMAIN tasks' |-> "pending"]
    /\ UNCHANGED <<channel_titles, response, live_games, games>>

InitWith(rs) ==
    /\ channel_titles = CHANNEL_TITLES
    /\ response \in rs
    /\ lo_pc = "start"
    /\ live_games = <<>>
    /\ games = <<>>
    /\ tasks = NoTasks
    /\ lo_i = 0
    /\ pc = <<>>
    /\ conn = <<>>
    /\ sent = <<>>
    /\ wire = <<>>
    /\ recvs = <<>>
    /\ out = <<>>
    /\ result = <<>>

(***************************************************************************)
(* The endpoint's catalog before the GET: games go live, markets open on   *)
(* the newest game, outcomes are listed on its newest market.              *)
(***************************************************************************)
CanGrow ==
    /\ lo_pc = "start"
    /\ HoldsCatalog(response)
    /\ CatalogSize(Catalog(response)) < MaxCatalogSize

ServerAddGame ==
    /\ CanGrow
    /\ \E g \in NewGames : response' = Ok(Append(Catalog(response), g))
    /\ UNCHANGED <<channel_titles, lo_pc, live_games, games, tasks, lo_i,
                   pc, conn, sent, wire, recvs, out, result>>

ServerAddMarket ==
    /\ CanGrow
    /\ Catalog(response) # <<>>
    /\ LET c == Catalog(response)
           g == Last(c) IN
        /\ Has(g, "markets")
        /\ \E m \in NewMarkets :
            response' = Ok([c EXCEPT ![Len(c)].markets = Append(g.markets, m)])
    /\ UNCHANGED <<channel_titles, lo_pc, live_games, games, tasks, lo_i,
                   pc, conn, sent, wire, recvs, out, result>>

ServerAddOutcome ==
    /\ CanGrow
    /\ Catalog(response) # <<>>
    /\ LET c == Catalog(response)
           g == Last(c) IN
        /\ Has(g, "markets")
        /\ g.markets # <<>>
        /\ Has(Last(g.markets), "outcomes")
        /\ \E o \in OutcomeIds :
            /\ \A k \in 1..Len(Last(g.markets).outcomes) : Last(g.markets).outcomes[k] # o
            /\ response' =
                Ok([c EXCEPT ![Len(c)].markets[Len(g.markets)].outcomes = Append(@, o)])
    /\ UNCHANGED <<channel_titles, lo_pc, live_games, games, tasks, lo_i,
                   pc, conn, sent, wire, recvs, out, result>>

(***************************************************************************)
(* SpecLaunch: live_odds_stream from its call to its first await, over     *)
(* every answer of the endpoint within the bounds.                         *)
(***************************************************************************)
InitLaunch == InitWith(FailedResponses \cup {Ok(<<>>)})

NextLaunch == ServerAddGame \/ ServerAddMarket \/ ServerAddOutcome \/ Fetch \/ Derive \/ Launch

SpecLaunch == InitLaunch /\ [][NextLaunch]_vars

(***************************************************************************)
(* stream: one asyncio task per element of `tasks`.  A task runs from one  *)
(* await to the next without interruption; it first runs once              *)
(* live_odds_stream is suspended at line 157.                              *)
(***************************************************************************)
\* the inbound frames: text that is not JSON, JSON that is not an object,
\* an object that lacks a key, an update
Text(json_ok, is_object, value) == [json_ok |-> json_ok, is_object |-> is_object, value |-> value]

Frames ==
    {Text(FALSE, FALSE, <<>>), Text(TRUE, FALSE, <<>>),
     Text(TRUE, TRUE, [payload |-> "p1"]), Text(TRUE, TRUE, [channel |-> "c1"])}
    \cup {Text(TRUE, TRUE, [channel |-> "c1", payload |-> p]) : p \in Payloads}

\* json.loads(message), line 37
json_loads(message) ==
    IF message.json_ok THEN Return(message) ELSE Raise("JSONDecodeError")

\* message_json[key], line 38-39
Subscript(message_json, key) ==
    IF ~message_json.is_object THEN Raise("TypeError")
    ELSE IF ~Has(message_json.value, key) THEN Raise("KeyError: " \o key)
    ELSE Return(message_json.value[key])

Stdout(text) == [fd |-> "stdout", text |-> text]

\* print_exc()
Stderr(exc) == [fd |-> "stderr", text |-> exc]

\* line 37-49: what one received frame makes the task print
Handle(message) ==
    LET message_json == json_loads(message)
        channel == IF message_json.raised THEN message_json
                   ELSE Subscript(message_json.value, "channel")
        payload == IF channel.raised THEN channel
                   ELSE Subscript(message_json.value, "payload")
    IN  IF payload.raised
        THEN <<Stdout("Error: " \o payload.exc), Stderr(payload.exc)>>
        ELSE <<Stdout(channel.value), Stdout(payload.value), Stdout("")>>

\* Running for stream() awaited in place instead of wrapped in a task: a call starts
\* when the calls before it are over
RunningInTurn(r) ==
    /\ lo_pc = "awaiting"
    /\ r \in DOMAIN tasks
    /\ \A q \in 1..(r - 1) : pc[q] = "done"

Running(r) == lo_pc = "awaiting" /\ r \in DOMAIN tasks

\* ConnectOk without line 32: the loop starts on a connection nothing was sent on
ConnectOkNoSend(r) ==
    /\ Running(r)
    /\ pc[r] = "connect"
    /\ conn' = [conn EXCEPT ![r] = "open"]
    /\ pc' = [pc EXCEPT ![r] = "recv"]
    /\ UNCHANGED <<lo_vars, sent, wire, recvs, out, result>>

\* line 31 returns a connection; line 32 starts the send
ConnectOk(r) ==
    /\ Running(r)
    /\ pc[r] = "connect"
    /\ conn' = [conn EXCEPT ![r] = "open"]
    /\ pc' = [pc EXCEPT ![r] = "send"]
    /\ UNCHANGED <<lo_vars, sent, wire, recvs, out, result>>

\* ConnectFail without the handler of line 52: the error leaves stream
ConnectFailRaises(r) ==
    /\ Running(r)
    /\ pc[r] = "connect"
    /\ pc' = [pc EXCEPT ![r] = "done"]
    /\ result' = [result EXCEPT ![r] = "raised"]
    /\ UNCHANGED <<lo_vars, conn, sent, wire, recvs, out>>

\* line 31 raises: line 52-54
ConnectFail(r) ==
    /\ Running(r)
    /\ pc[r] = "connect"
    /\ out' = [out EXCEPT ![r] = @ \o <<Stdout("Error: ConnectFailed"), Stderr("ConnectFailed")>>]
    /\ pc' = [pc EXCEPT ![r] = "done"]
    /\ result' = [result EXCEPT ![r] = "returned"]
    /\ UNCHANGED <<lo_vars, conn, sent, wire, recvs>>

\* line 32 completes; line 36 starts the first receive
SendOk(r) ==
    /\ Running(r)
    /\ pc[r] = "send"
    /\ sent' = [sent EXCEPT ![r] = Append(@, tasks[r].subscription_payload)]
    /\ pc' = [pc EXCEPT ![r] = "recv"]
    /\ UNCHANGED <<lo_vars, conn, wire, recvs, out, result>>

\* line 32 raises: line 52-54, which do not close ws
SendFail(r) ==
    /\ Running(r)
    /\ pc[r] = "send"
    /\ out' = [out EXCEPT ![r] = @ \o <<Stdout("Error: ConnectionClosed"), Stderr("ConnectionClosed")>>]
    /\ pc' = [pc EXCEPT ![r] = "done"]
    /\ result' = [result EXCEPT ![r] = "returned"]
    /\ UNCHANGED <<lo_vars, conn, sent, wire, recvs>>

FramesReceived == SumLen(wire, DOMAIN wire)

\* RecvFrame with an await between the prints of line 41 and 42: the step ends
\* after the first line of an update
RecvFrameYields(r) ==
    /\ Running(r)
    /\ pc[r] = "recv"
    /\ FramesReceived < MaxFrames
    /\ \E message \in Frames :
        /\ wire' = [wire EXCEPT ![r] = Append(@, message)]
        /\ out' = [out EXCEPT ![r] = IF Len(Handle(message)) = 3
                                       THEN Append(@, Handle(message)[1])
                                       ELSE @ \o Handle(message)]
    /\ recvs' = [recvs EXCEPT ![r] = @ + 1]
    /\ UNCHANGED <<lo_vars, pc, conn, sent, result>>

\* RecvFrame putting what it prints ahead of what was printed before
RecvFrameNewestFirst(r) ==
    /\ Running(r)
    /\ pc[r] = "recv"
    /\ FramesReceived < MaxFrames
    /\ \E message \in Frames :
        /\ wire' = [wire EXCEPT ![r] = Append(@, message)]
        /\ out' = [out EXCEPT ![r] = Handle(message) \o @]
    /\ recvs' = [recvs EXCEPT ![r] = @ + 1]
    /\ UNCHANGED <<lo_vars, pc, conn, sent, result>>

\* RecvFrame with a `break` in the handler of line 47: a frame that fails ends the loop
RecvFrameBreaks(r) ==
    /\ Running(r)
    /\ pc[r] = "recv"
    /\ FramesReceived < MaxFrames
    /\ \E message \in Frames :
        /\ wire' = [wire EXCEPT ![r] = Append(@, message)]
        /\ out' = [out EXCEPT ![r] = @ \o Handle(message)]
        /\ pc' = [pc EXCEPT ![r] = IF Len(Handle(message)) = 2 THEN "close" ELSE @]
    /\ recvs' = [recvs EXCEPT ![r] = @ + 1]
    /\ UNCHANGED <<lo_vars, conn, sent, result>>

\* line 36 returns a frame: line 37-43 or 47-49, then line 36 again
RecvFrame(r) ==
    /\ Running(r)
    /\ pc[r] = "recv"
    /\ FramesReceived < MaxFrames
    /\ \E message \in Frames :
        /\ wire' = [wire EXCEPT ![r] = Append(@, message)]
        /\ out' = [out EXCEPT ![r] = @ \o Handle(message)]
    /\ recvs' = [recvs EXCEPT ![r] = @ + 1]
    /\ UNCHANGED <<lo_vars, pc, conn, sent, result>>

\* RecvClosed without the `break` of line 46: the loop receives again
RecvClosedRetries(r) ==
    /\ Running(r)
    /\ pc[r] = "recv"
    /\ recvs[r] <= MaxFrames
    /\ recvs' = [recvs EXCEPT ![r] = @ + 1]
    /\ out' = [out EXCEPT ![r] = Append(@, Stderr("ConnectionClosed"))]
    /\ UNCHANGED <<lo_vars, pc, conn, sent, wire, result>>

\* RecvClosed in a task group: the error of one task cancels the others
RecvClosedCancelsAll(r) ==
    /\ Running(r)
    /\ pc[r] = "recv"
    /\ recvs' = [recvs EXCEPT ![r] = @ + 1]
    /\ out' = [out EXCEPT ![r] = Append(@, Stderr("ConnectionClosed"))]
    /\ pc' = [s \in DOMAIN pc |-> IF s = r THEN "close" ELSE "done"]
    /\ result' = [s \in DOMAIN result |->
                    IF s # r /\ result[s] = "pending" THEN "cancelled" ELSE result[s]]
    /\ UNCHANGED <<lo_vars, conn, sent, wire>>

\* line 36 raises ConnectionClosed, a WebSocketException: line 44-46, then line 51 starts
RecvClosed(r) ==
    /\ Running(r)
    /\ pc[r] = "recv"
    /\ recvs' = [recvs EXCEPT ![r] = @ + 1]
    /\ out' = [out EXCEPT ![r] = Append(@, Stderr("ConnectionClosed"))]
    /\ pc' = [pc EXCEPT ![r] = "close"]
    /\ UNCHANGED <<lo_vars, conn, sent, wire, result>>

\* line 51 completes and stream returns
CloseDone(r) ==
    /\ Running(r)
    /\ pc[r] = "close"
    /\ conn' = [conn EXCEPT ![r] = "closed"]
    /\ pc' = [pc EXCEPT ![r] = "done"]
    /\ result' = [result EXCEPT ![r] = "returned"]
    /\ UNCHANGED <<lo_vars, sent, wire, recvs, out>>

\* Await returning as soon as the first task is done
AwaitFirst ==
    /\ lo_pc = "awaiting"
    /\ result[lo_i] # "pending"
    /\ lo_pc' = "returned"
    /\ UNCHANGED <<channel_titles, response, live_games, games, tasks, lo_i,
                   pc, conn, sent, wire, recvs, out, result>>

\* line 157: the tasks are awaited one after the other, in creation order; awaiting
\* a task that raised raises
Await ==
    /\ lo_pc = "awaiting"
    /\ result[lo_i] # "pending"
    /\ IF result[lo_i] = "raised" THEN lo_pc' = "raised" /\ UNCHANGED lo_i
       ELSE IF lo_i = Len(tasks) THEN lo_pc' = "returned" /\ UNCHANGED lo_i
       ELSE lo_i' = lo_i + 1 /\ UNCHANGED lo_pc
    /\ UNCHANGED <<channel_titles, response, live_games, games, tasks, pc, conn, sent, wire, recvs, out, result>>

(***************************************************************************)
(* Spec: a whole run, the receive loops included, over sample catalogs of  *)
(* at most MaxRunners tasks.                                               *)
(***************************************************************************)
SampleCatalogs ==
    {<<>>,
     <<Game("g1", <<>>)>>,
     <<Game("g1", <<>>), Game("g2", <<>>)>>,
     <<Game("g1", <<>>), [markets |-> <<>>]>>}

NumTasks(c) ==
    LET r == get_game_channels(c) IN IF r.raised THEN 0 ELSE Len(TaskList(r.value))

RunResponses ==
    FailedResponses \cup {Ok(c) : c \in {s \in SampleCatalogs : NumTasks(s) <= MaxRunners}}

Init == InitWith(RunResponses)

Step(r) ==
    \/ ConnectOk(r)
    \/ ConnectFail(r)
    \/ SendOk(r)
    \/ SendFail(r)
    \/ RecvFrame(r)
    \/ RecvClosed(r)
    \/ CloseDone(r)

Next == Fetch \/ Derive \/ Launch \/ Await \/ \E r \in 1..MaxRunners : Step(r)

Spec == Init /\ [][Next]_vars

(***************************************************************************)
(* Properties of the task list (SpecLaunch).                               *)
(***************************************************************************)
Launched == lo_pc = "awaiting"

Message(k) == tasks[k].subscription_payload

IsSubscribe(message) == Has(message, "channel") /\ message.action = "subscribe"

GameStateChannels == {"game_state." \o id : id \in GameIds}

\* how many tasks subscribe to channel ch
Subscriptions(ch) ==
    Cardinality({k \in DOMAIN tasks : IsSubscribe(Message(k)) /\ Message(k).channel = ch})

\* how many times get_game_channels derived channel ch
Derivations(ch) ==
    Cardinality({<<i, k>> \in (DOMAIN games) \X (1..(2 * MaxCatalogSize)) :
                    k <= Len(games[i].channels) /\ games[i].channels[k] = ch})

DerivedChannels == UNION {{games[i].channels[k] : k \in DOMAIN games[i].channels} : i \in DOMAIN games}

NumDerived == SumLen([i \in DOMAIN games |-> games[i].channels], DOMAIN games)

\* C6: once live_odds_stream has created its tasks there are exactly 1 + N + M of
\* them, N the number of games of the fetched catalog and M the number of derived
\* market channels: one task sends the filter message, for every game id as many
\* tasks subscribe to "game_state.{id}" as games carry that id, for every derived
\* channel as many tasks subscribe to it as times it was derived, and every task
\* is given the same URI.
C6_TaskCount ==
    Launched =>
        /\ Len(live_games) = Len(Catalog(response))
        /\ Len(tasks) = 1 + Len(live_games) + NumDerived
        /\ Cardinality({k \in DOMAIN tasks : Message(k) = FilterMessage}) = 1
        /\ \A id \in GameIds :
            Subscriptions("game_state." \o id)
                = Cardinality({i \in DOMAIN live_games : live_games[i].game_id = id})
        /\ \A ch \in DerivedChannels : Subscriptions(ch) = Derivations(ch)
        /\ \A k \in DOMAIN tasks :
            /\ Message(k) = FilterMessage \/ IsSubscribe(Message(k))
            /\ IsSubscribe(Message(k)) =>
                Message(k).channel \in GameStateChannels \cup DerivedChannels
            /\ tasks[k].uri = ws_uri

\* the catalog of one game g1 with one SPREAD market with outcome o1 gives 4 tasks
C6_Witness ==
    /\ Launched
    /\ live_games = <<Game("g1", <<Market("SPREAD", <<"o1">>)>>)>>
    /\ Len(tasks) = 4
    /\ {Message(k) : k \in DOMAIN tasks}
        = {FilterMessage, SubscribeMessage("game_state.g1"),
           SubscribeMessage("best_ms.o1"), SubscribeMessage("spread.o1")}

Derived == lo_pc \in {"derived", "awaiting"}

Recognized(market) == market.market_type \in {"MONEYLINE", "SPREAD"}

Prefix(market_type, k) ==
    IF market_type = "MONEYLINE" THEN (IF k = 1 THEN "best_ml" ELSE "moneyline")
    ELSE (IF k = 1 THEN "best_ms" ELSE "spread")

\* the number of channels the markets before market i of game g account for
RECURSIVE ChannelsBefore(_, _)
ChannelsBefore(g, i) ==
    IF i = 1 THEN 0
    ELSE ChannelsBefore(g, i - 1)
         + (IF Recognized(g.markets[i - 1]) THEN 2 * Len(g.markets[i - 1].outcomes) ELSE 0)

\* C8: the channels get_game_channels derives for a game are, market after market
\* in catalog order with the markets of an unrecognized type skipped, outcome after
\* outcome in catalog order, the two prefixes of the market's type in declared
\* order (MONEYLINE: best_ml, moneyline; SPREAD: best_ms, spread), each as
\* "{prefix}.{outcome_id}": the channel of market i, outcome j, prefix k stands at
\* position (channels of the markets before i) + 2 (j - 1) + k, and there is no
\* other channel.
C8_ChannelOrder ==
    Derived =>
        /\ Len(games) = Len(live_games)
        /\ \A g \in DOMAIN games :
            LET lg == live_games[g] IN
            /\ Len(games[g].channels) = ChannelsBefore(lg, Len(lg.markets) + 1)
            /\ \A i \in DOMAIN lg.markets :
                Recognized(lg.markets[i]) =>
                    \A j \in DOMAIN lg.markets[i].outcomes : \A k \in 1..2 :
                        games[g].channels[ChannelsBefore(lg, i) + 2 * (j - 1) + k]
                            = Prefix(lg.markets[i].market_type, k) \o "."
                                \o lg.markets[i].outcomes[j]

\* one MONEYLINE market with outcomes o1, o2
C8_Witness ==
    /\ Derived
    /\ live_games = <<Game("g1", <<Market("MONEYLINE", <<"o1", "o2">>)>>)>>
    /\ games[1].channels = <<"best_ml.o1", "moneyline.o1", "best_ml.o2", "moneyline.o2">>

SubscribeTo(ch) == StreamArgs(SubscribeMessage(ch))

AllChannels == Flatten([i \in DOMAIN games |-> games[i].channels])

\* C9 as claimed: the task list is the filter task, then one game_state task per
\* game in catalog order, then all market channel tasks.
C9_GroupedOrder ==
    Launched =>
        tasks = <<StreamArgs(FilterMessage)>>
                \o [i \in DOMAIN games |-> SubscribeTo("game_state." \o live_games[i].game_id)]
                \o [k \in DOMAIN AllChannels |-> SubscribeTo(AllChannels[k])]

\* the position in `tasks` of the game_state task of game i
RECURSIVE GameStart(_)
GameStart(i) == IF i = 1 THEN 2 ELSE GameStart(i - 1) + 1 + Len(games[i - 1].channels)

\* C9 as amended: the task list is the filter task, then, game after game in
\* catalog order, the game_state task of the game directly followed by the market
\* channel tasks of that game in derived order.
C9_InterleavedOrder ==
    Launched =>
        /\ tasks[1] = StreamArgs(FilterMessage)
        /\ Len(tasks) = GameStart(Len(games) + 1) - 1
        /\ \A i \in DOMAIN games :
            /\ tasks[GameStart(i)] = SubscribeTo("game_state." \o live_games[i].game_id)
            /\ \A k \in DOMAIN games[i].channels :
                tasks[GameStart(i) + k] = SubscribeTo(games[i].channels[k])

\* two games, the first of which has market channels
C9_Witness ==
    /\ Launched
    /\ Len(games) = 2
    /\ games[1].channels # <<>>
    /\ IsSubscribe(Message(Len(tasks)))
    /\ Message(Len(tasks)).channel = "game_state." \o live_games[2].game_id

IsGameState(task) ==
    /\ IsSubscribe(task.subscription_payload)
    /\ task.subscription_payload.channel \in GameStateChannels

\* C10: the game_state subscriptions among the tasks are, in task order, exactly
\* one "game_state.{game_id}" per game of the catalog in catalog order, whatever
\* the markets of the game and whether or not two games share a game_id.
C10_GameStatePerGame ==
    Launched =>
        SelectSeq(tasks, IsGameState)
            = [i \in DOMAIN live_games |-> SubscribeTo("game_state." \o live_games[i].game_id)]

\* two games that share a game_id, the first with a market, the second with none
C10_Witness ==
    /\ Launched
    /\ Len(live_games) = 2
    /\ live_games[1].game_id = live_games[2].game_id
    /\ live_games[1].markets # <<>>
    /\ live_games[2].markets = <<>>
    /\ Len(SelectSeq(tasks, IsGameState)) = 2

(***************************************************************************)
(* Properties of a run (Spec).                                             *)
(***************************************************************************)
Runners == DOMAIN tasks

\* everything task s holds
RunnerState(s) == <<pc[s], conn[s], sent[s], wire[s], recvs[s], out[s], result[s]>>

\* task r ends its loop or its run in this step
Terminates(r) == r \in DOMAIN pc /\ pc[r] \in {"connect", "send", "recv"}
                 /\ pc'[r] \in {"close", "done"}

\* C1: a step in which the connection of one task closes or fails ends that task
\* alone: every other task keeps its position, its connection and its output, is
\* neither ended nor cancelled, and live_odds_stream does not raise; and whatever
\* the other tasks have come to, a task waiting for a frame on its open connection
\* can still receive the next frame.
C1_Isolation ==
    /\ [][\A r \in Runners :
            Terminates(r) =>
                /\ \A s \in Runners \ {r} : RunnerState(s)' = RunnerState(s)
                /\ lo_pc' = lo_pc]_vars
    /\ [](\A s \in Runners :
            (Launched /\ pc[s] = "recv" /\ FramesReceived < MaxFrames) =>
                conn[s] = "open" /\ result[s] = "pending" /\ ENABLED RecvFrame(s))

IsUpdate(lines) ==
    /\ Len(lines) = 3
    /\ \A k \in 1..3 : lines[k].fd = "stdout"
    /\ lines[3].text = ""

\* one task's connection closed before any frame, another has printed an update
\* and is still receiving
C1_Witness ==
    \E r, s \in Runners :
        /\ r # s
        /\ pc[r] = "done" /\ conn[r] = "closed" /\ wire[r] = <<>> /\ recvs[r] = 1
        /\ pc[s] = "recv" /\ conn[s] = "open" /\ IsUpdate(out[s])
        /\ FramesReceived < MaxFrames

WellFormed(message) ==
    /\ message.json_ok
    /\ message.is_object
    /\ {"channel", "payload"} \subseteq DOMAIN message.value

Received(r) == r \in DOMAIN wire /\ Len(wire'[r]) = Len(wire[r]) + 1

\* C2: a step in which a task receives a frame that is not JSON, not an object or
\* lacks `channel` or `payload` makes the task report the error (an "Error: ..."
\* line and a trace) and nothing else, and leaves it receiving on its open
\* connection; a step in which it then receives a well-formed frame prints that
\* frame's channel, its payload and a blank line.
C2_BadFrameContinues ==
    [][\A r \in Runners :
        Received(r) =>
            LET message == Last(wire'[r]) IN
            /\ pc'[r] = "recv" /\ conn'[r] = "open" /\ result'[r] = "pending"
            /\ ~WellFormed(message) =>
                /\ Len(out'[r]) = Len(out[r]) + 2
                /\ SubSeq(out'[r], 1, Len(out[r])) = out[r]
                /\ out'[r][Len(out[r]) + 1].fd = "stdout"
                /\ out'[r][Len(out[r]) + 2].fd = "stderr"
            /\ WellFormed(message) =>
                out'[r] = out[r] \o <<Stdout(message.value.channel),
                                      Stdout(message.value.payload), Stdout("")>>]_vars

\* a frame without `channel`, then an update, which is printed
C2_Witness ==
    \E r \in Runners :
        /\ Len(wire[r]) = 2
        /\ wire[r][1] = Text(TRUE, TRUE, [payload |-> "p1"])
        /\ WellFormed(wire[r][2])
        /\ pc[r] = "recv"
        /\ Len(out[r]) = 5
        /\ out[r][1] = Stdout("Error: KeyError: channel")
        /\ SubSeq(out[r], 3, 5) = <<Stdout("c1"), Stdout(wire[r][2].value.payload), Stdout("")>>

\* a receive of task r has failed
RecvFailed(r) == recvs[r] > Len(wire[r])

\* C3: once a receive of a task has failed with a transport error the task is out
\* of its loop for good: that receive was its last, it sends nothing more, it does
\* not raise, and when it is done its connection is closed and it has returned.
C3_TransportErrorEnds ==
    /\ [](\A r \in Runners :
            RecvFailed(r) =>
                /\ recvs[r] = Len(wire[r]) + 1
                /\ pc[r] \in {"close", "done"}
                /\ result[r] = (IF pc[r] = "done" THEN "returned" ELSE "pending")
                /\ pc[r] = "done" => conn[r] = "closed"
                /\ Len(sent[r]) = 1
                /\ lo_pc # "raised")
    /\ [][\A r \in Runners :
            RecvFailed(r) =>
                /\ recvs'[r] = recvs[r] /\ wire'[r] = wire[r] /\ sent'[r] = sent[r]
                /\ conn'[r] \in {conn[r], "closed"}]_vars

\* a connection that closed before any frame: the task has closed it and returned
C3_Witness ==
    \E r \in Runners :
        /\ pc[r] = "done" /\ result[r] = "returned" /\ conn[r] = "closed"
        /\ recvs[r] = 1 /\ wire[r] = <<>>

\* no connection was established for task r
ConnectFailed(r) == pc[r] = "done" /\ conn[r] = "none"

\* C4: a task whose connection could not be established has reported the error
\* and returned without raising; it has sent no frame and called no receive.
C4_ConnectFailure ==
    \A r \in Runners :
        ConnectFailed(r) =>
            /\ result[r] = "returned"
            /\ lo_pc # "raised"
            /\ sent[r] = <<>> /\ wire[r] = <<>> /\ recvs[r] = 0
            /\ Len(out[r]) = 2 /\ out[r][1].fd = "stdout" /\ out[r][2].fd = "stderr"

C4_Witness == \E r \in Runners : ConnectFailed(r) /\ result[r] = "returned"

\* C5: when the fetch fails (the GET fails, the body is not JSON, `body` or
\* `live_games` is absent) live_odds_stream raises and has created no task: no
\* connection exists and nothing was sent.
C5_FetchFailureAborts ==
    (response \in FailedResponses /\ lo_pc # "start") =>
        /\ lo_pc = "raised"
        /\ tasks = NoTasks
        /\ DOMAIN conn = {} /\ DOMAIN sent = {} /\ DOMAIN pc = {}

C5_Witness == response = NoLiveGames /\ lo_pc = "raised" /\ tasks = NoTasks

\* C7: when live_odds_stream has returned, every task it created is done.
C7_ReturnsAfterAll ==
    lo_pc = "returned" =>
        \A r \in Runners : pc[r] = "done" /\ result[r] # "pending"

\* a run of two tasks has returned: the first received frames before its
\* connection closed, the last received none
C7_Witness ==
    /\ lo_pc = "returned"
    /\ Len(tasks) >= 2
    /\ wire[1] # <<>>
    /\ wire[Len(tasks)] = <<>>

(***************************************************************************)
(* More properties of the task list (SpecLaunch).                          *)
(***************************************************************************)
NoneRecognized(lg) == \A i \in DOMAIN lg.markets : ~Recognized(lg.markets[i])

\* C11: a market of an unrecognized type adds no channel, whatever its outcomes:
\* the channels of a game are those of the game without such markets, a game
\* with no recognized market has none, and a catalog of N games none of which has
\* a recognized market launches, besides the filter task, N game_state tasks and
\* no market channel task.
C11_UnrecognizedIgnored ==
    /\ Derived =>
        \A g \in DOMAIN games :
            /\ games[g].channels
                = GameChannels([live_games[g] EXCEPT
                                   !.markets = SelectSeq(live_games[g].markets, Recognized)])
            /\ NoneRecognized(live_games[g]) => games[g].channels = <<>>
    /\ (Launched /\ \A g \in DOMAIN live_games : NoneRecognized(live_games[g])) =>
        /\ Len(tasks) = 1 + Len(live_games)
        /\ Len(SelectSeq(tasks, IsGameState)) = Len(live_games)
        /\ \A k \in 2..Len(tasks) : IsGameState(tasks[k])

\* two games, one of them with a TOTAL market that has an outcome: three tasks
C11_Witness ==
    /\ Launched
    /\ Len(live_games) = 2
    /\ \E g \in DOMAIN live_games : \E i \in DOMAIN live_games[g].markets :
        /\ live_games[g].markets[i].market_type = "TOTAL"
        /\ Has(live_games[g].markets[i], "outcomes")
        /\ live_games[g].markets[i].outcomes # <<>>
    /\ Len(tasks) = 3

\* the places of the catalog that give channel "{prefix}.{o}": a recognized market,
\* one of its outcomes, one of the two prefixes of its type
Sources(prefix, o) ==
    {<<g, i, j, k>> \in (DOMAIN live_games) \X (1..MaxCatalogSize) \X (1..MaxCatalogSize) \X (1..2) :
        /\ i \in DOMAIN live_games[g].markets
        /\ Recognized(live_games[g].markets[i])
        /\ j \in DOMAIN live_games[g].markets[i].outcomes
        /\ live_games[g].markets[i].outcomes[j] = o
        /\ Prefix(live_games[g].markets[i].market_type, k) = prefix}

RECURSIVE RecognizedOutcomes(_)
RecognizedOutcomes(g) ==
    IF g = 0 THEN 0
    ELSE RecognizedOutcomes(g - 1)
         + ChannelsBefore(live_games[g], Len(live_games[g].markets) + 1) \div 2

LacksKey(c) ==
    \E g \in DOMAIN c :
        \/ ~Has(c[g], "game_id")
        \/ ~Has(c[g], "markets")
        \/ \E i \in DOMAIN c[g].markets :
            \/ ~Has(c[g].markets[i], "market_type")
            \/ /\ c[g].markets[i].market_type \in {"MONEYLINE", "SPREAD"}
               /\ ~Has(c[g].markets[i], "outcomes")

\* C19: when a game of the fetched catalog lacks game_id or markets, or one of
\* its markets lacks market_type or, being of a recognized type, outcomes,
\* live_odds_stream raises having created no task at all, so no connection is
\* opened for the filter or for the games before the unreadable one; on any other
\* catalog the derivation does not raise.
C19_AllOrNothing ==
    (HoldsCatalog(response) /\ lo_pc \notin {"start", "fetched"}) =>
        IF LacksKey(live_games)
        THEN lo_pc = "raised" /\ tasks = NoTasks /\ DOMAIN pc = {} /\ DOMAIN conn = {}
        ELSE lo_pc # "raised"

\* a game with a SPREAD market and an outcome, then a game with a market without type
C19_Witness ==
    /\ lo_pc = "raised"
    /\ HoldsCatalog(response)
    /\ Len(live_games) = 2
    /\ live_games[1] = Game("g1", <<Market("SPREAD", <<"o1">>)>>)
    /\ Has(live_games[2], "markets")
    /\ live_games[2].markets = <<[outcomes |-> <<>>]>>
    /\ tasks = NoTasks

(***************************************************************************)
(* More properties of a run (Spec).                                        *)
(***************************************************************************)
\* C14: a task sends one frame at most, its subscription message, on a connection
\* it has opened; it is at or past a receive only when that frame has been sent,
\* and while the send is under way it has received nothing.
C14_SendOnceFirst ==
    \A r \in Runners :
        /\ Len(sent[r]) <= 1
        /\ sent[r] # <<>> => sent[r] = <<tasks[r].subscription_payload>> /\ conn[r] # "none"
        /\ (recvs[r] > 0 \/ pc[r] \in {"recv", "close"}) => Len(sent[r]) = 1
        /\ pc[r] \in {"connect", "send"} => sent[r] = <<>> /\ recvs[r] = 0 /\ wire[r] = <<>>

\* a task has received two frames and sent its subscription, nothing else
C14_Witness ==
    \E r \in Runners :
        /\ Len(wire[r]) = 2
        /\ pc[r] = "recv"
        /\ sent[r] = <<SubscribeMessage("game_state.g1")>>

\* a line print(channel), print(payload) or print() wrote
IsPrinted(line) == line.fd = "stdout" /\ line.text \in {"c1", ""} \cup Payloads

\* what printing the well-formed frames of w, in order, writes
PrintedFor(w) ==
    Flatten([k \in DOMAIN w |->
                IF WellFormed(w[k])
                THEN <<Stdout(w[k].value.channel), Stdout(w[k].value.payload), Stdout("")>>
                ELSE <<>>])

\* C15: the update lines a task has printed are those of the well-formed frames it
\* has received, frame after frame in the order received, each once.
C15_WireOrder ==
    \A r \in Runners : SelectSeq(out[r], IsPrinted) = PrintedFor(wire[r])

\* update p2 then update p1 on one connection, printed in that order
C15_Witness ==
    \E r \in Runners :
        /\ Len(wire[r]) = 2
        /\ wire[r][1].value = [channel |-> "c1", payload |-> "p2"]
        /\ wire[r][2].value = [channel |-> "c1", payload |-> "p1"]
        /\ out[r] = <<Stdout("c1"), Stdout("p2"), Stdout(""),
                      Stdout("c1"), Stdout("p1"), Stdout("")>>

\* C16 as claimed: a task that is done and had opened a connection has closed it.
C16_ClosedOnExit ==
    \A r \in Runners : (pc[r] = "done" /\ conn[r] # "none") => conn[r] = "closed"

\* C17: whatever the other tasks are waiting for, and for however long, a task
\* whose connect, send or receive is under way can have it completed: its next
\* step needs no step of any other task, be that task before or after it in
\* `tasks`.
C17_HungStallsItselfOnly ==
    \A s \in Runners :
        Launched =>
            /\ pc[s] = "connect" => ENABLED ConnectOk(s)
            /\ pc[s] = "send" => ENABLED SendOk(s)
            /\ (pc[s] = "recv" /\ FramesReceived < MaxFrames) => ENABLED RecvFrame(s)

\* the first task, the one live_odds_stream awaits, has not got its connection;
\* the second has connected, subscribed and printed an update
C17_Witness ==
    /\ Launched
    /\ Len(tasks) >= 2
    /\ lo_i = 1
    /\ pc[1] = "connect"
    /\ pc[2] = "recv"
    /\ Len(sent[2]) = 1
    /\ IsUpdate(out[2])

(***************************************************************************)
(* SpecFair: Spec in which the event loop resumes what can run and every   *)
(* transport operation under way completes: a connect and a send end (one  *)
(* way or the other), a connection that is read from closes in the end.    *)
(***************************************************************************)
Fairness ==
    /\ WF_vars(Fetch \/ Derive \/ Launch)
    /\ WF_vars(Await)
    /\ \A r \in 1..MaxRunners :
        /\ WF_vars(ConnectOk(r) \/ ConnectFail(r))
        /\ WF_vars(SendOk(r) \/ SendFail(r))
        /\ WF_vars(RecvClosed(r))
        /\ WF_vars(CloseDone(r))

SpecFair == Spec /\ Fairness

AllDone == \A r \in Runners : pc[r] = "done"

\* C18: when the fetch gives a catalog that get_game_channels accepts and every
\* connection closes, breaks or fails to open in the end, every task ends and
\* live_odds_stream returns; it has not returned while a task is not done.
C18_Terminates ==
    /\ (lo_pc = "start" /\ HoldsCatalog(response) /\ ~LacksKey(Catalog(response)))
            ~> (lo_pc = "returned" /\ AllDone)
    /\ Launched ~> (lo_pc = "returned" /\ AllDone)
    /\ [](lo_pc = "returned" => AllDone)

\* a run has returned after one connection failed to open and another closed
C18_Witness ==
    /\ lo_pc = "returned"
    /\ \E r, s \in Runners : conn[r] = "none" /\ conn[s] = "closed" /\ recvs[s] > 0

\* what task r printed in this step
Appended(r) == SubSeq(out'[r], Len(out[r]) + 1, Len(out'[r]))

\* C20: a step in which a task prints leaves the output of every other task as it
\* was and only adds to the task's own; for a received frame it adds either the
\* three lines of the update (channel, payload, blank) or, the frame being
\* unusable, no line of an update at all.
C20_AtomicOutput ==
    [][\A r \in Runners :
        out'[r] # out[r] =>
            /\ \A s \in Runners \ {r} : out'[s] = out[s]
            /\ Len(out'[r]) > Len(out[r])
            /\ SubSeq(out'[r], 1, Len(out[r])) = out[r]
            /\ IF Received(r) /\ WellFormed(Last(wire'[r]))
               THEN /\ IsUpdate(Appended(r))
                    /\ Appended(r)[1].text = Last(wire'[r]).value.channel
                    /\ Appended(r)[2].text = Last(wire'[r]).value.payload
               ELSE SelectSeq(Appended(r), IsPrinted) = <<>>]_vars

\* two tasks have each printed an update
C20_Witness ==
    /\ Len(tasks) >= 2
    /\ IsUpdate(out[1])
    /\ IsUpdate(out[2])
====
